---------------------------- MODULE Spec2Model ----------------------------
(***************************************************************************)
(* A model of the BufferQueue of src/src/tokenizer/buffer_queue.rs: a      *)
(* queue of owned UTF-8 string buffers, each with a byte cursor, that is   *)
(* consumed a character at a time (next, peek, pop_front) or a data run at *)
(* a time (pop_data), and refilled at either end (push_back, push_front).  *)
(*                                                                         *)
(* A string (~str) is a sequence of bytes holding valid UTF-8; a char is   *)
(* its code point.  Byte offsets are 0-based as in the source, so the byte *)
(* at offset i of s is s[i + 1].                                           *)
(***************************************************************************)
EXTENDS Integers, Sequences, FiniteSets, TLC

(***************************************************************************)
(* Bounds of the model.                                                    *)
(***************************************************************************)
\* Total number of characters the callers push over a run.
MaxChars == 3
\* Largest number of characters of one pushed buffer.
MaxChunkLen == 2
\* Largest number of buffers held in the list at a time.
MaxBuffers == 2
\* Largest n passed to has(n) and pop_front(n).
MaxCount == 2
\* Largest number of characters of a string given to data_span alone.
MaxSpanLen == 3

(***************************************************************************)
(* Characters and bytes.                                                   *)
(***************************************************************************)
\* The five bytes data_span stops at (buffer_queue.rs:43).
NUL == 0
CR == 13
AMP == 38
DASH == 45
LT == 60
TriggerBytes == {NUL, CR, AMP, DASH, LT}

\* Characters of the pushed texts: the ordinary one-byte 'a' (U+0061), the
\* ordinary two-byte U+00E9 (bytes C3 A9) and the trigger '<'.
Alphabet == {97, 233, LT}

\* uint is the machine word, and its arithmetic wraps.  TLC's integers are
\* 32-bit, so the word is modelled with 30 bits; every count of the model is
\* far below 2^30, so a subtraction wraps here exactly when it wraps in a
\* 32-bit or 64-bit word.
UintModulus == 2^30

\* The UTF-8 encoding of one char (what push_char / collect() appends).
encode_char(c) ==
    IF c < 128 THEN << c >>
    ELSE IF c < 2048 THEN << 192 + (c \div 64), 128 + (c % 64) >>
    ELSE << 224 + (c \div 4096), 128 + ((c \div 64) % 64), 128 + (c % 64) >>

RECURSIVE encode_str(_)
\* The ~str holding the chars cs, in order.
encode_str(cs) ==
    IF cs = << >> THEN << >>
    ELSE encode_char(Head(cs)) \o encode_str(Tail(cs))

\* s.slice(from, to): the bytes at offsets from .. to-1.
slice(s, from, to) == SubSeq(s, from + 1, to)

\* s.slice_from(from).
slice_from(s, from) == SubSeq(s, from + 1, Len(s))

\* char_range_at taking every char for one byte long.
char_range_at_one_byte(s, i) == [ch |-> s[i + 1], next |-> i + 1]

\* s.char_range_at(i): the char that starts at byte offset i and the offset
\* of the char after it, decoded from the lead byte's width.
char_range_at(s, i) ==
    LET b0 == s[i + 1] IN
    IF b0 < 128 THEN [ch |-> b0, next |-> i + 1]
    ELSE IF b0 < 224
         THEN [ch |-> (b0 - 192) * 64 + (s[i + 2] - 128), next |-> i + 2]
         ELSE [ch |-> (b0 - 224) * 4096 + (s[i + 2] - 128) * 64 + (s[i + 3] - 128),
               next |-> i + 3]

\* s.char_at(i).
char_at(s, i) == char_range_at(s, i).ch

RECURSIVE char_len_from(_, _)
char_len_from(s, i) ==
    IF i >= Len(s) THEN 0 ELSE 1 + char_len_from(s, char_range_at(s, i).next)

\* s.char_len(): the number of chars (code points) of s.
char_len(s) == char_len_from(s, 0)

RECURSIVE data_span_without_lt(_)
\* data_span with '<' left out of the match arm.
data_span_without_lt(s) ==
    IF s = << >> THEN 0
    ELSE IF Head(s) \in {NUL, CR, AMP, DASH} THEN 0
    ELSE 1 + data_span_without_lt(Tail(s))

RECURSIVE data_span_no_break(_)
\* data_span going on after a trigger byte instead of breaking.
data_span_no_break(s) ==
    IF s = << >> THEN 0
    ELSE IF Head(s) \in TriggerBytes THEN data_span_no_break(Tail(s))
    ELSE 1 + data_span_no_break(Tail(s))

RECURSIVE data_span(_)
\* Count the number of data bytes at the beginning of s.
data_span(s) ==
    IF s = << >> THEN 0
    ELSE IF Head(s) \in TriggerBytes THEN 0
    ELSE 1 + data_span(Tail(s))

(***************************************************************************)
(* Values returned by the operations.                                      *)
(***************************************************************************)
None == [kind |-> "None"]
SomeChar(c) == [kind |-> "Some", ch |-> c]
SomeStr(s) == [kind |-> "Some", str |-> s]
SomeBool(b) == [kind |-> "Some", bool |-> b]
SomeCount(n) == [kind |-> "Some", n |-> n]
DataRun(s) == [kind |-> "DataRun", str |-> s]
OneChar(c) == [kind |-> "OneChar", ch |-> c]

(***************************************************************************)
(* The queue: q.buffers is the DList<Buffer>, q.available the counter.     *)
(* Each operation is an operator from the queue (and its arguments) to the *)
(* queue after the call and the value returned.                            *)
(***************************************************************************)
Buffer_new(buf) == [pos |-> 0, buf |-> buf]

BufferQueue_new == [buffers |-> << >>, available |-> 0]

\* account_new adding the byte length instead of the char count.
account_new_bytes(q, buf) ==
    [q EXCEPT !.available = (q.available + Len(buf)) % UintModulus]

account_new(q, buf) ==
    [q EXCEPT !.available = (q.available + char_len(buf)) % UintModulus]

\* push_front adding the buffer at the wrong end.
push_front_at_back(q, buf) ==
    LET q1 == account_new(q, buf) IN
    [q1 EXCEPT !.buffers = Append(q1.buffers, Buffer_new(buf))]

push_front(q, buf) ==
    LET q1 == account_new(q, buf) IN
    [q1 EXCEPT !.buffers = << Buffer_new(buf) >> \o q1.buffers]

push_back(q, buf) ==
    LET q1 == account_new(q, buf) IN
    [q1 EXCEPT !.buffers = Append(q1.buffers, Buffer_new(buf))]

\* has answering for the front buffer alone.
has_in_front_buffer(q, n) ==
    \/ n = 0
    \/ /\ q.buffers # << >>
       /\ char_len(slice_from(Head(q.buffers).buf, Head(q.buffers).pos)) >= n

has(q, n) == q.available >= n

RECURSIVE drop_all(_)
\* The pruning loop with its test reversed (pos <= buf.len()).
drop_all(bufs) ==
    IF bufs # << >> /\ Head(bufs).pos <= Len(Head(bufs).buf)
    THEN drop_all(Tail(bufs))
    ELSE bufs

\* drop_empty_buffers with an `if` in place of its `while`.
drop_first_only(bufs) ==
    IF bufs # << >> /\ Head(bufs).pos >= Len(Head(bufs).buf)
    THEN Tail(bufs)
    ELSE bufs

RECURSIVE drop_empty(_)
drop_empty(bufs) ==
    IF bufs # << >> /\ Head(bufs).pos >= Len(Head(bufs).buf)
    THEN drop_empty(Tail(bufs))
    ELSE bufs

drop_empty_buffers(q) == [q EXCEPT !.buffers = drop_empty(q.buffers)]

\* peek reading at the start of the buffer instead of at its cursor.
peek_at_start(q) ==
    LET q1 == drop_empty_buffers(q) IN
    IF q1.buffers = << >> THEN [q |-> q1, out |-> None]
    ELSE LET b == Head(q1.buffers) IN
         [q |-> q1, out |-> SomeChar(char_at(b.buf, 0))]

peek(q) ==
    LET q1 == drop_empty_buffers(q) IN
    IF q1.buffers = << >> THEN [q |-> q1, out |-> None]
    ELSE LET b == Head(q1.buffers) IN
         [q |-> q1, out |-> SomeChar(char_at(b.buf, b.pos))]

next(q) ==
    LET q1 == drop_empty_buffers(q) IN
    IF q1.buffers = << >> THEN [q |-> q1, out |-> None]
    ELSE LET b == Head(q1.buffers)
             r == char_range_at(b.buf, b.pos)
         IN [q |-> [buffers |-> << [b EXCEPT !.pos = r.next] >> \o Tail(q1.buffers),
                    available |-> (q1.available - 1) % UintModulus],
             out |-> SomeChar(r.ch)]

\* pop_data ending its run after the first char instead of after n bytes.
pop_data_first_char_run(q) ==
    LET q1 == drop_empty_buffers(q) IN
    IF q1.buffers = << >> THEN [q |-> q1, out |-> None]
    ELSE LET b == Head(q1.buffers)
             n == data_span(slice_from(b.buf, b.pos))
         IN IF n > 1
            THEN LET new_pos == char_range_at(b.buf, b.pos).next IN
                 [q |-> [buffers |-> << [b EXCEPT !.pos = new_pos] >> \o Tail(q1.buffers),
                         available |-> (q1.available - n) % UintModulus],
                  out |-> DataRun(slice(b.buf, b.pos, new_pos))]
            ELSE LET r == char_range_at(b.buf, b.pos) IN
                 [q |-> [buffers |-> << [b EXCEPT !.pos = r.next] >> \o Tail(q1.buffers),
                         available |-> (q1.available - 1) % UintModulus],
                  out |-> OneChar(r.ch)]

\* pop_data returning a run also when the run is one byte long (n > 0).
pop_data_run_of_one(q) ==
    LET q1 == drop_empty_buffers(q) IN
    IF q1.buffers = << >> THEN [q |-> q1, out |-> None]
    ELSE LET b == Head(q1.buffers)
             n == data_span(slice_from(b.buf, b.pos))
         IN IF n > 0
            THEN LET new_pos == b.pos + n IN
                 [q |-> [buffers |-> << [b EXCEPT !.pos = new_pos] >> \o Tail(q1.buffers),
                         available |-> (q1.available - n) % UintModulus],
                  out |-> DataRun(slice(b.buf, b.pos, new_pos))]
            ELSE LET r == char_range_at(b.buf, b.pos) IN
                 [q |-> [buffers |-> << [b EXCEPT !.pos = r.next] >> \o Tail(q1.buffers),
                         available |-> (q1.available - 1) % UintModulus],
                  out |-> OneChar(r.ch)]

\* pop_data copying one byte too few into the run.
pop_data_short_run(q) ==
    LET q1 == drop_empty_buffers(q) IN
    IF q1.buffers = << >> THEN [q |-> q1, out |-> None]
    ELSE LET b == Head(q1.buffers)
             n == data_span(slice_from(b.buf, b.pos))
         IN IF n > 1
            THEN LET new_pos == b.pos + n IN
                 [q |-> [buffers |-> << [b EXCEPT !.pos = new_pos] >> \o Tail(q1.buffers),
                         available |-> (q1.available - n) % UintModulus],
                  out |-> DataRun(slice(b.buf, b.pos, new_pos - 1))]
            ELSE LET r == char_range_at(b.buf, b.pos) IN
                 [q |-> [buffers |-> << [b EXCEPT !.pos = r.next] >> \o Tail(q1.buffers),
                         available |-> (q1.available - 1) % UintModulus],
                  out |-> OneChar(r.ch)]

\* pop_data returning the first char alone for a run of two bytes as well.
pop_data_wide(q) ==
    LET q1 == drop_empty_buffers(q) IN
    IF q1.buffers = << >> THEN [q |-> q1, out |-> None]
    ELSE LET b == Head(q1.buffers)
             n == data_span(slice_from(b.buf, b.pos))
         IN IF n > 2
            THEN LET new_pos == b.pos + n IN
                 [q |-> [buffers |-> << [b EXCEPT !.pos = new_pos] >> \o Tail(q1.buffers),
                         available |-> (q1.available - n) % UintModulus],
                  out |-> DataRun(slice(b.buf, b.pos, new_pos))]
            ELSE LET r == char_range_at(b.buf, b.pos) IN
                 [q |-> [buffers |-> << [b EXCEPT !.pos = r.next] >> \o Tail(q1.buffers),
                         available |-> (q1.available - 1) % UintModulus],
                  out |-> OneChar(r.ch)]

pop_data(q) ==
    LET q1 == drop_empty_buffers(q) IN
    IF q1.buffers = << >> THEN [q |-> q1, out |-> None]
    ELSE LET b == Head(q1.buffers)
             n == data_span(slice_from(b.buf, b.pos))
         IN IF n > 1
            THEN LET new_pos == b.pos + n IN
                 [q |-> [buffers |-> << [b EXCEPT !.pos = new_pos] >> \o Tail(q1.buffers),
                         available |-> (q1.available - n) % UintModulus],
                  out |-> DataRun(slice(b.buf, b.pos, new_pos))]
            ELSE LET r == char_range_at(b.buf, b.pos) IN
                 [q |-> [buffers |-> << [b EXCEPT !.pos = r.next] >> \o Tail(q1.buffers),
                         available |-> (q1.available - 1) % UintModulus],
                  out |-> OneChar(r.ch)]

RECURSIVE take_collect(_, _)
\* self.by_ref().take(n).collect(): up to n calls of next(), stopping at the
\* first None, the chars collected into a ~str.
take_collect(q, n) ==
    IF n = 0 THEN [q |-> q, str |-> << >>]
    ELSE LET r == next(q) IN
         IF r.out = None THEN [q |-> r.q, str |-> << >>]
         ELSE LET rest == take_collect(r.q, n - 1) IN
              [q |-> rest.q, str |-> encode_char(r.out.ch) \o rest.str]

\* pop_front reading first and counting afterwards.
pop_front_partial(q, n) ==
    LET r == take_collect(q, n) IN
    IF char_len(r.str) < n THEN [q |-> r.q, out |-> None]
    ELSE [q |-> r.q, out |-> SomeStr(r.str)]

pop_front(q, n) ==
    IF ~has(q, n) THEN [q |-> q, out |-> None]
    ELSE LET r == take_collect(q, n) IN [q |-> r.q, out |-> SomeStr(r.str)]

(***************************************************************************)
(* State.                                                                  *)
(***************************************************************************)
VARIABLES
    buffers,    \* BufferQueue.buffers
    available,  \* BufferQueue.available
    ret,        \* the last call: its name, its argument, what it returned and
                \* how many exhausted buffers it dropped
    fed,        \* number of chars the callers have pushed so far
    exh,        \* history of exhaustion: "none" once peek/next/pop_data has
                \* returned None, "refilled" once a non-empty text was pushed
                \* after that, "resumed" once a read followed that push
    rt,         \* progress of an un-consume round trip (SpecRT only)
    twin        \* a second queue fed the same text in other chunks, and what
                \* its last call returned (SpecTwin only)

vars == << buffers, available, ret, fed, exh, rt, twin >>

queue == [buffers |-> buffers, available |-> available]

\* The texts a caller pushes: every string of at most MaxChunkLen chars.
CharSeqs == UNION { [1..k -> Alphabet] : k \in 0..MaxChunkLen }
Counts == 0..MaxCount

Call(op, arg, out, pruned) == [op |-> op, arg |-> arg, out |-> out, pruned |-> pruned]

\* Buffers the call removed from the list.
Pruned(q) == Len(buffers) - Len(q.buffers)

Becomes(q) == buffers' = q.buffers /\ available' = q.available

ReadOps == {"peek", "next", "pop_data"}
PushOps == {"push_back", "push_front"}

\* The exhaustion history after the call c.
Track(c) ==
    IF c.op \in ReadOps
    THEN IF c.out = None THEN "none"
         ELSE IF exh = "refilled" THEN "resumed" ELSE "no"
    ELSE IF c.op \in PushOps /\ exh = "none"
         THEN IF c.arg = << >> THEN "none" ELSE "refilled"
         ELSE "no"

Idle == [phase |-> "idle"]

\* The second queue of a comparison, before anything is pushed on it.
NoTwin == [q |-> BufferQueue_new, out |-> None]

\* The call c returns: it is recorded, no round trip is in progress.
Returns(c) ==
    ret' = c /\ exh' = Track(c) /\ rt = Idle /\ rt' = rt /\ twin' = twin

Init ==
    /\ buffers = BufferQueue_new.buffers
    /\ available = BufferQueue_new.available
    /\ ret = Call("new", 0, None, 0)
    /\ fed = 0
    /\ exh = "no"
    /\ rt = Idle
    /\ twin = NoTwin

PushFront ==
    \E cs \in CharSeqs :
        /\ fed + Len(cs) <= MaxChars
        /\ Len(buffers) < MaxBuffers
        /\ Becomes(push_front(queue, encode_str(cs)))
        /\ Returns(Call("push_front", encode_str(cs), None, 0))
        /\ fed' = fed + Len(cs)

PushBack ==
    \E cs \in CharSeqs :
        /\ fed + Len(cs) <= MaxChars
        /\ Len(buffers) < MaxBuffers
        /\ Becomes(push_back(queue, encode_str(cs)))
        /\ Returns(Call("push_back", encode_str(cs), None, 0))
        /\ fed' = fed + Len(cs)

Has ==
    \E n \in Counts :
        /\ Returns(Call("has", n, SomeBool(has(queue, n)), 0))
        /\ UNCHANGED << buffers, available, fed >>

PopFront ==
    \E n \in Counts :
        LET r == pop_front(queue, n) IN
        /\ Becomes(r.q)
        /\ Returns(Call("pop_front", n, r.out, Pruned(r.q)))
        /\ UNCHANGED fed

Peek ==
    LET r == peek(queue) IN
    /\ Becomes(r.q)
    /\ Returns(Call("peek", 0, r.out, Pruned(r.q)))
    /\ UNCHANGED fed

PopData ==
    LET r == pop_data(queue) IN
    /\ Becomes(r.q)
    /\ Returns(Call("pop_data", 0, r.out, Pruned(r.q)))
    /\ UNCHANGED fed

NextChar ==
    LET r == next(queue) IN
    /\ Becomes(r.q)
    /\ Returns(Call("next", 0, r.out, Pruned(r.q)))
    /\ UNCHANGED fed

Next ==
    \/ PushFront
    \/ PushBack
    \/ Has
    \/ PopFront
    \/ Peek
    \/ PopData
    \/ NextChar

Spec == Init /\ [][Next]_vars

(***************************************************************************)
(* The un-consume round trip of the tokenizer (as in can_unconsume): from  *)
(* any state, consume k chars with next(), push them back with push_front, *)
(* consume k chars again.  rt keeps the queue as it was before the first   *)
(* read (before) and as that read left it (mid), and the two strings read. *)
(***************************************************************************)
RTConsume ==
    \E k \in 1..MaxCount :
        LET r == take_collect(queue, k) IN
        /\ rt = Idle
        /\ char_len(r.str) = k
        /\ Len(r.q.buffers) < MaxBuffers
        /\ Becomes(r.q)
        /\ rt' = [phase |-> "consumed", k |-> k, s |-> r.str,
                  before |-> queue, mid |-> r.q]
        /\ ret' = Call("take", k, SomeStr(r.str), Pruned(r.q))
        /\ exh' = "no"
        /\ UNCHANGED << fed, twin >>

RTPushFront ==
    /\ rt.phase = "consumed"
    /\ Becomes(push_front(queue, rt.s))
    /\ rt' = [rt EXCEPT !.phase = "pushed"]
    /\ ret' = Call("push_front", rt.s, None, 0)
    /\ UNCHANGED << fed, exh, twin >>

RTReconsume ==
    LET r == take_collect(queue, rt.k) IN
    /\ rt.phase = "pushed"
    /\ Becomes(r.q)
    /\ rt' = [phase |-> "done", k |-> rt.k, s |-> rt.s, before |-> rt.before,
              mid |-> rt.mid, again |-> r.str]
    /\ ret' = Call("take", rt.k, SomeStr(r.str), Pruned(r.q))
    /\ UNCHANGED << fed, exh, twin >>

NextRT ==
    \/ PushFront
    \/ PushBack
    \/ Has
    \/ PopFront
    \/ Peek
    \/ PopData
    \/ NextChar
    \/ RTConsume
    \/ RTPushFront
    \/ RTReconsume

SpecRT == Init /\ [][NextRT]_vars

(***************************************************************************)
(* What is left in a queue, read off its buffers.                          *)
(***************************************************************************)
RECURSIVE decode_from(_, _)
decode_from(s, i) ==
    IF i >= Len(s) THEN << >>
    ELSE LET r == char_range_at(s, i) IN << r.ch >> \o decode_from(s, r.next)

\* The chars of the string s.
decode_str(s) == decode_from(s, 0)

RECURSIVE RemainingBytes(_)
RemainingBytes(bufs) ==
    IF bufs = << >> THEN << >>
    ELSE slice_from(Head(bufs).buf, Head(bufs).pos) \o RemainingBytes(Tail(bufs))

\* The not-yet-consumed chars of every buffer, in queue order.
Remaining(q) == decode_str(RemainingBytes(q.buffers))

\* The number of not-yet-consumed chars.
CharsRemaining(q) == Len(Remaining(q))

RECURSIVE DrainNext(_)
\* The chars repeated next() calls return until the first None.
DrainNext(q) ==
    LET r == next(q) IN
    IF r.out = None THEN << >> ELSE << r.out.ch >> \o DrainNext(r.q)

RECURSIVE DrainData(_)
\* The values repeated pop_data() calls return until the first None.
DrainData(q) ==
    LET r == pop_data(q) IN
    IF r.out = None THEN << >> ELSE << r.out >> \o DrainData(r.q)

RECURSIVE Flatten(_)
\* The text of a sequence of DataRun / OneChar values.
Flatten(outs) ==
    IF outs = << >> THEN << >>
    ELSE (IF Head(outs).kind = "DataRun" THEN Head(outs).str
          ELSE encode_char(Head(outs).ch)) \o Flatten(Tail(outs))

PopDataReturned(kind) == ret.op = "pop_data" /\ ret.out.kind = kind

(***************************************************************************)
(* C1: `available` is the exact number of not-yet-consumed chars (code     *)
(* points) of all buffers, so has(n) is true iff n <= that number.         *)
(* The code breaks it: pop_data subtracts the BYTE length of a data run.   *)
(***************************************************************************)
C1_AvailableIsCharsRemaining ==
    /\ available = CharsRemaining(queue)
    /\ ret.op = "has" => ret.out.bool = (ret.arg <= CharsRemaining(queue))

(***************************************************************************)
(* C2: repeated next() returns the queued text in order: push_back appends *)
(* its text after everything queued, push_front inserts its text before    *)
(* the char that was next, and next() returns and removes the first        *)
(* remaining char.                                                         *)
(***************************************************************************)
C2_Step ==
    /\ DrainNext(queue') = Remaining(queue')
    /\ ret'.op = "push_back" =>
           DrainNext(queue') = DrainNext(queue) \o decode_str(ret'.arg)
    /\ ret'.op = "push_front" =>
           DrainNext(queue') = decode_str(ret'.arg) \o DrainNext(queue)
    /\ ret'.op = "next" =>
           IF Remaining(queue) = << >>
           THEN ret'.out = None /\ Remaining(queue') = << >>
           ELSE /\ ret'.out = SomeChar(Head(Remaining(queue)))
                /\ Remaining(queue') = Tail(Remaining(queue))

\* C2: every step keeps the order of the text that repeated next() returns.
C2_OrderPreserved == [][C2_Step]_vars

\* next() has read from a text pushed in front of a partly consumed buffer
\* (a buffer with pos > 0 was at the front once, so the one before it was
\* pushed in front of it).
C2_Witness ==
    /\ ret.op = "next" /\ ret.out # None
    /\ Len(buffers) = 2
    /\ buffers[1].pos > 0
    /\ buffers[2].pos > 0 /\ buffers[2].pos < Len(buffers[2].buf)

(***************************************************************************)
(* C4: the values of repeated pop_data() calls, concatenated, are exactly  *)
(* the remaining text: the chars repeated next() calls would return.       *)
(***************************************************************************)
C4_PopDataReproducesInput ==
    /\ Flatten(DrainData(queue)) = encode_str(DrainNext(queue))
    /\ Flatten(DrainData(queue)) = RemainingBytes(buffers)

\* pop_data has returned a run and the rest of the text spans two buffers.
C4_Witness ==
    /\ PopDataReturned("DataRun")
    /\ Len(buffers) = 2
    /\ buffers[1].pos < Len(buffers[1].buf)
    /\ Len(DrainData(queue)) >= 2

(***************************************************************************)
(* C5 as claimed: every OneChar of pop_data holds a trigger char.          *)
(***************************************************************************)
C5_OneCharIsTrigger ==
    PopDataReturned("OneChar") => ret.out.ch \in TriggerBytes

(***************************************************************************)
(* C5 amended: every OneChar of pop_data holds a trigger char, or an       *)
(* ordinary one-byte char that is a run of its own: what follows it in its *)
(* buffer is a trigger char or the end of the buffer.                      *)
(***************************************************************************)
C5_OneCharIsTriggerOrLoneData ==
    PopDataReturned("OneChar") =>
        \/ ret.out.ch \in TriggerBytes
        \/ /\ ret.out.ch < 128
           /\ LET b == Head(buffers) IN
              \/ b.pos = Len(b.buf)
              \/ b.buf[b.pos + 1] \in TriggerBytes

\* pop_data has returned an ordinary char as OneChar, a trigger behind it.
C5_Witness ==
    /\ PopDataReturned("OneChar")
    /\ ret.out.ch \notin TriggerBytes
    /\ Head(buffers).pos < Len(Head(buffers).buf)

(***************************************************************************)
(* C6: every DataRun of pop_data is non-empty and holds no trigger char.   *)
(***************************************************************************)
C6_DataRunHasNoTrigger ==
    PopDataReturned("DataRun") =>
        /\ ret.out.str # << >>
        /\ \A i \in 1..Len(ret.out.str) : ret.out.str[i] \notin TriggerBytes
        /\ \A i \in 1..Len(decode_str(ret.out.str)) :
               decode_str(ret.out.str)[i] \notin TriggerBytes

\* pop_data has returned a run that a trigger char ended.
C6_Witness ==
    /\ PopDataReturned("DataRun")
    /\ LET b == Head(buffers) IN
       b.pos < Len(b.buf) /\ b.buf[b.pos + 1] \in TriggerBytes

(***************************************************************************)
(* C3: the un-consume round trip.  After k chars were consumed into s, s   *)
(* pushed back in front and k chars consumed again, the second read has    *)
(* returned exactly s, and the queue is back in the state the first read   *)
(* left it in: has, peek, next, pop_front and pop_data return what they    *)
(* would have returned had s never been pushed back and read again (the    *)
(* exhausted buffer of s is all that differs, and every read drops it).    *)
(* In between, right after push_front(s), the queue holds the chars and    *)
(* the count it held before the first read.                                *)
(***************************************************************************)
SameCharReads(p, q) ==
    /\ p.available = q.available
    /\ DrainNext(p) = DrainNext(q)
    /\ peek(p).out = peek(q).out
    /\ \A n \in Counts : /\ has(p, n) = has(q, n)
                         /\ pop_front(p, n).out = pop_front(q, n).out

C7_Step ==
    ret'.op = "pop_front" =>
        LET rem == Remaining(queue)
            n == ret'.arg
        IN /\ (ret'.out.kind = "Some") <=> (n <= Len(rem))
           /\ ret'.out.kind = "Some" =>
                  /\ ret'.out.str = encode_str(SubSeq(rem, 1, n))
                  /\ Remaining(queue') = SubSeq(rem, n + 1, Len(rem))

\* C7: every pop_front(n) returns the next n chars iff n chars remain.
C7_PopFrontExact == [][C7_Step]_vars

(***************************************************************************)
(* C8: a pop_front(n) that returns None consumes nothing: the buffers,     *)
(* their cursors and `available` are as before, and so is what peek, next  *)
(* and pop_data return.                                                    *)
(***************************************************************************)
C8_Step ==
    (ret'.op = "pop_front" /\ ret'.out = None) =>
        /\ buffers' = buffers
        /\ available' = available
        /\ peek(queue').out = peek(queue).out
        /\ next(queue').out = next(queue).out
        /\ pop_data(queue').out = pop_data(queue).out

\* C8: every pop_front(n) that returns None leaves the queue as it was.
C8_FailedPopFrontConsumesNothing == [][C8_Step]_vars

\* pop_front has returned None with chars left behind an exhausted buffer.
C8_Witness ==
    /\ ret.op = "pop_front" /\ ret.out = None
    /\ Len(buffers) = 2
    /\ buffers[1].pos > 0 /\ buffers[1].pos = Len(buffers[1].buf)
    /\ CharsRemaining(queue) >= 1

(***************************************************************************)
(* C9: exhaustion is transient.  Once peek, next or pop_data has returned  *)
(* None, the next() that follows a push of a non-empty text returns the    *)
(* first char of that text, and peek and pop_data return a value too.      *)
(***************************************************************************)
C9_Step ==
    /\ (exh = "refilled" /\ ret'.op = "next") =>
           ret'.out = SomeChar(Head(decode_str(ret.arg)))
    /\ (exh = "refilled" /\ ret'.op \in ReadOps) => ret'.out # None

\* C9: after None and a push of a non-empty text, reads return chars again.
C9_ExhaustionIsTransient == [][C9_Step]_vars

\* next() has returned a char of a text pushed after a read returned None.
C9_Witness == exh = "resumed" /\ ret.op = "next" /\ ret.out # None

(***************************************************************************)
(* C10: peek() consumes nothing.  It returns what a next() right after it  *)
(* returns (None exactly when next() returns None), leaves `available` and *)
(* the remaining chars as they were, and returns the same when repeated,   *)
(* also when it had exhausted buffers to drop first.                       *)
(***************************************************************************)
C10_Step ==
    ret'.op = "peek" =>
        /\ ret'.out = next(queue').out
        /\ ret'.out = next(queue).out
        /\ available' = available
        /\ Remaining(queue') = Remaining(queue)
        /\ peek(queue').out = ret'.out
        /\ peek(queue').q = queue'

\* C10: every peek() returns what next() would and consumes nothing.
C10_PeekDoesNotConsume == [][C10_Step]_vars

\* peek has dropped an exhausted buffer and returned the char behind it.
C10_Witness == ret.op = "peek" /\ ret.pruned > 0 /\ ret.out # None

(***************************************************************************)
(* C11: every pop_data() that returns a value takes from `available` the   *)
(* number of chars it consumed, for a DataRun as for a OneChar.            *)
(* The code breaks it: for a DataRun it takes the number of bytes.         *)
(***************************************************************************)
C11_Step ==
    (ret'.op = "pop_data" /\ ret'.out # None) =>
        LET consumed == CharsRemaining(queue) - CharsRemaining(queue') IN
        /\ consumed = Len(decode_str(Flatten(<< ret'.out >>)))
        /\ available' = (available - consumed) % UintModulus

\* C11: pop_data decrements `available` by the chars it consumed.
C11_PopDataCountsChars == [][C11_Step]_vars

(***************************************************************************)
(* C12: when data_span of the rest of the front buffer is exactly 1,       *)
(* pop_data returns OneChar of that char, not a DataRun of one char, and   *)
(* consumes that char only.  (So no DataRun is one byte long.)             *)
(***************************************************************************)
C12_Step ==
    /\ (/\ ret'.op = "pop_data"
        /\ drop_empty(buffers) # << >>
        /\ LET b == Head(drop_empty(buffers)) IN
           data_span(slice_from(b.buf, b.pos)) = 1) =>
           /\ ret'.out = OneChar(Head(Remaining(queue)))
           /\ Remaining(queue') = Tail(Remaining(queue))
    /\ (ret'.op = "pop_data" /\ ret'.out.kind = "DataRun") =>
           Len(ret'.out.str) >= 2

\* C12: a classified length of 1 is returned as OneChar.
C12_LengthOneIsOneChar == [][C12_Step]_vars

\* pop_data has returned an ordinary char alone, a trigger behind it, and
\* the next pop_data will return that trigger.
C12_Witness ==
    /\ PopDataReturned("OneChar")
    /\ ret.out.ch \notin TriggerBytes
    /\ Head(buffers).pos = 1
    /\ Head(buffers).pos < Len(Head(buffers).buf)
    /\ pop_data(queue).out = OneChar(LT)

(***************************************************************************)
(* C13: a DataRun never spans a buffer boundary.  It is a contiguous piece *)
(* of the front non-exhausted buffer, from its cursor on, the buffers      *)
(* behind it are not touched, and the run is maximal in its buffer: after  *)
(* it the buffer is exhausted or its next char is a trigger char.          *)
(***************************************************************************)
C13_Step ==
    (ret'.op = "pop_data" /\ ret'.out.kind = "DataRun") =>
        LET old == drop_empty(buffers)
            b == Head(old)
            c == Head(buffers')
        IN /\ Tail(buffers') = Tail(old)
           /\ c.buf = b.buf
           /\ c.pos <= Len(b.buf)
           /\ ret'.out.str = slice(b.buf, b.pos, c.pos)
           /\ c.pos = Len(b.buf) \/ b.buf[c.pos + 1] \in TriggerBytes

\* C13: every DataRun lies within the front buffer and is maximal there.
C13_RunStaysInChunk == [][C13_Step]_vars

\* pop_data has returned a run that ended at the end of its buffer although
\* the next buffer begins with an ordinary char.
C13_Witness ==
    /\ PopDataReturned("DataRun")
    /\ Len(buffers) = 2
    /\ buffers[1].pos = Len(buffers[1].buf)
    /\ buffers[2].pos = 0
    /\ buffers[2].buf # << >>
    /\ buffers[2].buf[1] \notin TriggerBytes

(***************************************************************************)
(* C14: in every state, every buffer's cursor is between 0 and the byte    *)
(* length of its text and on a char boundary (at the end, or on a byte     *)
(* that is not a continuation byte 10xxxxxx); and every trigger byte of a  *)
(* text starts a char, so a run that ends before one ends on a boundary.   *)
(***************************************************************************)
IsCharBoundary(s, i) == i = Len(s) \/ s[i + 1] \div 64 # 2

C14_CursorOnCharBoundary ==
    \A k \in 1..Len(buffers) :
        LET b == buffers[k] IN
        /\ 0 <= b.pos /\ b.pos <= Len(b.buf)
        /\ IsCharBoundary(b.buf, b.pos)
        /\ \A i \in 0..(Len(b.buf) - 1) :
               b.buf[i + 1] \in TriggerBytes => IsCharBoundary(b.buf, i)

\* pop_data has returned a run ending in a two-byte char, just before a
\* trigger char.
C14_Witness ==
    /\ PopDataReturned("DataRun")
    /\ ret.out.str[Len(ret.out.str)] >= 128
    /\ LET b == Head(buffers) IN
       b.pos < Len(b.buf) /\ b.buf[b.pos + 1] \in TriggerBytes

(***************************************************************************)
(* data_span on its own (as in data_span_test): a string is chosen, then   *)
(* data_span is applied to it.  The strings are the texts of at most       *)
(* MaxSpanLen chars over the five triggers, the padding 'x' of the test    *)
(* and the two-byte U+00E9.                                                *)
(***************************************************************************)
SpanAlphabet == TriggerBytes \cup {120, 233}
SpanInputs ==
    { encode_str(cs) : cs \in UNION { [1..k -> SpanAlphabet] : k \in 0..MaxSpanLen } }

InitSpan ==
    /\ buffers = BufferQueue_new.buffers
    /\ available = BufferQueue_new.available
    /\ fed = 0
    /\ exh = "no"
    /\ rt = Idle
    /\ twin = NoTwin
    /\ \E s \in SpanInputs : ret = Call("input", s, None, 0)

DataSpan ==
    /\ ret.op = "input"
    /\ ret' = Call("data_span", ret.arg, SomeCount(data_span(ret.arg)), 0)
    /\ UNCHANGED << buffers, available, fed, exh, rt, twin >>

NextSpan == DataSpan

SpecSpan == InitSpan /\ [][NextSpan]_vars

ReadsWithinBuffer(q) ==
    LET bs == drop_empty_buffers(q).buffers IN
    bs # << >> =>
        /\ Head(bs).pos < Len(Head(bs).buf)
        /\ char_range_at(Head(bs).buf, Head(bs).pos).next <= Len(Head(bs).buf)

\* q with an empty string still at its back, or q itself.
WithEmpty(q) == {q, push_back(q, << >>)}

\* p answers every read as q does, and next() and pop_data() leave p as
\* they leave q, but for an empty string still at the back.
SameReads(p, q) ==
    /\ peek(p).out = peek(q).out
    /\ next(p).out = next(q).out
    /\ next(p).q \in WithEmpty(next(q).q)
    /\ pop_data(p).out = pop_data(q).out
    /\ pop_data(p).q \in WithEmpty(pop_data(q).q)
    /\ \A n \in Counts : /\ has(p, n) = has(q, n)
                         /\ pop_front(p, n).out = pop_front(q, n).out

C16_ExhaustedBuffersUnobservable ==
    /\ ReadsWithinBuffer(queue)
    /\ ReadsWithinBuffer(push_front(queue, << >>))
    /\ ReadsWithinBuffer(push_back(queue, << >>))
    /\ (peek(queue).out = None \/ next(queue).out = None
            \/ pop_data(queue).out = None) => CharsRemaining(queue) = 0
    /\ SameReads(push_front(queue, << >>), queue)
    /\ SameReads(push_back(queue, << >>), queue)

\* peek() has dropped a buffer that was pushed as the empty string (no char
\* was ever consumed) and returned the first char of the one behind it.
C16_Witness ==
    /\ ret.op = "peek"
    /\ ret.pruned = 1
    /\ ret.out # None
    /\ fed = CharsRemaining(queue)

(***************************************************************************)
(* C17: `available` never underflows.  The value next() takes 1 from is at *)
(* least 1, and the value pop_data() takes n (a DataRun of n bytes) or 1   *)
(* (a OneChar) from is at least n, or 1.  Dropping exhausted buffers does  *)
(* not touch `available`, so the value subtracted from is the one the call *)
(* starts with.                                                            *)
(***************************************************************************)
C17_Step ==
    /\ (ret'.op = "next" /\ ret'.out # None) => available >= 1
    /\ (ret'.op = "pop_data" /\ ret'.out.kind = "OneChar") => available >= 1
    /\ (ret'.op = "pop_data" /\ ret'.out.kind = "DataRun") =>
           available >= Len(ret'.out.str)

\* C17: no subtraction from `available` underflows.
C17_AvailableNeverUnderflows == [][C17_Step]_vars

(***************************************************************************)
(* Two queues fed the same text: each text is given to both with           *)
(* push_back, cut in two buffers at a place chosen for each queue apart    *)
(* (or left whole), and every has, peek, next and pop_front call is made   *)
(* on both.  twin holds the second queue and what its last call returned.  *)
(***************************************************************************)
\* Where a text can be cut: nowhere (0), or after its i-th char.
SplitPoints(cs) == {0} \cup 1..(Len(cs) - 1)

push_split(q, cs, i) ==
    IF i = 0
    THEN push_back(q, encode_str(cs))
    ELSE push_back(push_back(q, encode_str(SubSeq(cs, 1, i))),
                   encode_str(SubSeq(cs, i + 1, Len(cs))))

\* The call c returns from the first queue, and out2 from the second, which
\* becomes q2.
Together(c, q2, out2) ==
    /\ ret' = c
    /\ exh' = Track(c)
    /\ twin' = [q |-> q2, out |-> out2]
    /\ rt' = rt

TwinPushBack ==
    \E cs \in CharSeqs :
        \E i, j \in SplitPoints(cs) :
            /\ fed + Len(cs) <= MaxChars
            /\ Len(buffers) < MaxBuffers
            /\ Len(twin.q.buffers) < MaxBuffers
            /\ Becomes(push_split(queue, cs, i))
            /\ Together(Call("push_back", encode_str(cs), None, 0),
                        push_split(twin.q, cs, j), None)
            /\ fed' = fed + Len(cs)

TwinHas ==
    \E n \in Counts :
        /\ Together(Call("has", n, SomeBool(has(queue, n)), 0),
                    twin.q, SomeBool(has(twin.q, n)))
        /\ UNCHANGED << buffers, available, fed >>

TwinPeek ==
    LET r == peek(queue)
        r2 == peek(twin.q)
    IN /\ Becomes(r.q)
       /\ Together(Call("peek", 0, r.out, Pruned(r.q)), r2.q, r2.out)
       /\ UNCHANGED fed

TwinNext ==
    LET r == next(queue)
        r2 == next(twin.q)
    IN /\ Becomes(r.q)
       /\ Together(Call("next", 0, r.out, Pruned(r.q)), r2.q, r2.out)
       /\ UNCHANGED fed

TwinPopFront ==
    \E n \in Counts :
        LET r == pop_front(queue, n)
            r2 == pop_front(twin.q, n)
        IN /\ Becomes(r.q)
           /\ Together(Call("pop_front", n, r.out, Pruned(r.q)), r2.q, r2.out)
           /\ UNCHANGED fed

NextTwin ==
    \/ TwinPushBack
    \/ TwinHas
    \/ TwinPeek
    \/ TwinNext
    \/ TwinPopFront

SpecTwin == Init /\ [][NextTwin]_vars

(***************************************************************************)
(* C18: the char-level reads do not show the chunking.  Two queues fed the *)
(* same text by push_back in different chunks return the same from every   *)
(* has, peek, next and pop_front call of a same sequence of calls, and     *)
(* keep the same count and the same remaining chars.                       *)
(***************************************************************************)
C18_ChunkingUnobservable ==
    /\ ret.op \in {"has", "peek", "next", "pop_front"} => twin.out = ret.out
    /\ twin.q.available = available
    /\ Remaining(twin.q) = Remaining(queue)

\* After a next() that returned the same char from both queues, the first
\* queue holds a run in one buffer that the second holds in two: pop_data()
\* would return a DataRun from the one and a OneChar from the other.
C18_Witness ==
    /\ ret.op = "next"
    /\ ret.out # None
    /\ twin.out = ret.out
    /\ pop_data(queue).out.kind = "DataRun"
    /\ pop_data(twin.q).out.kind = "OneChar"

(***************************************************************************)
(* C19: draining terminates.  Every next() or pop_data() that returns a    *)
(* value leaves strictly fewer chars; repeated calls therefore reach None  *)
(* after at most as many calls as there are chars left (DrainNext and      *)
(* DrainData, which repeat the call until None, are finite and that        *)
(* short); and when None is returned no char is left and has(1) is false.  *)
(***************************************************************************)
C19_Step ==
    /\ Len(DrainNext(queue)) = CharsRemaining(queue)
    /\ Len(DrainData(queue)) <= CharsRemaining(queue)
    /\ (ret'.op \in {"next", "pop_data"} /\ ret'.out # None) =>
           CharsRemaining(queue') < CharsRemaining(queue)
    /\ (ret'.op \in {"next", "pop_data"} /\ ret'.out = None) =>
           /\ CharsRemaining(queue') = 0
           /\ ~ has(queue', 1)

\* C19: consumption strictly decreases the chars left and ends with None,
\* nothing left and has(1) false.
C19_DrainingTerminates == [][C19_Step]_vars

=============================================================================
